---- MODULE Spec2Model ----
(***************************************************************************)
(* Model of packets.py: the IPv4 / TCP / UDP / ICMP header decoders, the   *)
(* payload dispatcher payload_builder, the flow key extractor to_tuple and *)
(* the ICMP summary.  A buffer is a sequence of bytes (0..255); Python's   *)
(* 0-based half-open slices are translated by Slice.  A Python object is a *)
(* record whose field cls names its class; a raised exception is the       *)
(* record [cls |-> "raise", exc |-> <exception class>].                    *)
(***************************************************************************)
EXTENDS Integers, Sequences, FiniteSets, TLC

VARIABLES buff, op, protocol, flip, obj, ret

vars == <<buff, op, protocol, flip, obj, ret>>

(* Largest buffer length the model feeds to the decoders. *)
MaxLen == 44

IPPROTO_ICMP == 1
IPPROTO_TCP == 6
IPPROTO_UDP == 17

----------------------------------------------------------------------------
(* Python builtins and library functions used by packets.py *)

Byte == 0..255

None == [cls |-> "None"]

Raise(e) == [cls |-> "raise", exc |-> e]

Min(a, b) == IF a < b THEN a ELSE b

(* s[a:b] for 0 <= a, 0 <= b: indices are clamped to len(s), never an error *)
Slice(s, a, b) == SubSeq(s, Min(a, Len(s)) + 1, Min(b, Len(s)))

(* x & y on non-negative integers *)
RECURSIVE And(_, _)
And(x, y) ==
    IF x = 0 \/ y = 0 THEN 0
    ELSE (x % 2) * (y % 2) + 2 * And(x \div 2, y \div 2)

(* x >> n *)
Shr(x, n) == x \div (2 ^ n)

(* An unsigned 32-bit big-endian integer, kept as its two 16-bit halves    *)
(* (value = hi * 65536 + lo), the model's integers being 32-bit signed.    *)
U32(b1, b2, b3, b4) == [hi |-> b1 * 256 + b2, lo |-> b3 * 256 + b4]

(* struct.calcsize for the three formats the module uses *)
calcsize(fmt) ==
    CASE fmt = "!BBH" -> 4
      [] fmt = "!HH" -> 4
      [] fmt = "!II" -> 8

(* struct.unpack: struct.error unless len(s) is exactly calcsize(fmt);      *)
(* network byte order (big endian) otherwise                                *)
unpack(fmt, s) ==
    IF Len(s) # calcsize(fmt) THEN Raise("struct.error")
    ELSE CASE fmt = "!BBH" ->
                [cls |-> "tuple", v |-> <<s[1], s[2], s[3] * 256 + s[4]>>]
           [] fmt = "!HH" ->
                [cls |-> "tuple",
                 v |-> <<s[1] * 256 + s[2], s[3] * 256 + s[4]>>]
           [] fmt = "!II" ->
                [cls |-> "tuple",
                 v |-> <<U32(s[1], s[2], s[3], s[4]),
                         U32(s[5], s[6], s[7], s[8])>>]

(* socket.inet_ntoa: socket.error unless the packed address has 4 bytes *)
inet_ntoa(packed) ==
    IF Len(packed) # 4 THEN Raise("socket.error")
    ELSE [cls |-> "str",
          v |-> ToString(packed[1]) \o "." \o ToString(packed[2]) \o "."
                \o ToString(packed[3]) \o "." \o ToString(packed[4])]

(* dict.get(key, default).  A key is a sequence: the int n is <<n>>, the    *)
(* tuple (a, b) is <<a, b>>, so an int never equals a tuple.                *)
dict_get(d, key, default) == IF key \in DOMAIN d THEN d[key] ELSE default

----------------------------------------------------------------------------
(* Lookup tables *)

ICMP_TYPES ==
    (<<0>> :> "Echo Reply") @@ (<<1>> :> "Reserved") @@ (<<2>> :> "Reserved")
    @@ (<<3>> :> "Destination Unreachable") @@ (<<4>> :> "Source Quench")
    @@ (<<5>> :> "Redirect") @@ (<<8>> :> "Echo Request")
    @@ (<<9>> :> "Router Advertisement") @@ (<<10>> :> "Router Solicitation")
    @@ (<<11>> :> "Time Exceeded")
    @@ (<<12>> :> "Parameter Problem: Bad IP Header")
    @@ (<<13>> :> "Timestamp") @@ (<<14>> :> "Timestamp Reply")
    @@ (<<15>> :> "Information Request") @@ (<<16>> :> "Information Reply")
    @@ (<<17>> :> "Address Mask Request") @@ (<<18>> :> "Address Mask Reply")
    @@ (<<30>> :> "Traceroute")

ICMP_CODES ==
    (<<0, 0>> :> "Echo reply")
    @@ (<<3, 0>> :> "Destination network unreachable")
    @@ (<<3, 1>> :> "Destination host unreachable")
    @@ (<<3, 2>> :> "Destination protocol unreachable")
    @@ (<<3, 3>> :> "Destination port unreachable")
    @@ (<<3, 4>> :> "Fragmentation required, and DF flag set")
    @@ (<<3, 5>> :> "Source route failed")
    @@ (<<3, 6>> :> "Destination network unknown")
    @@ (<<3, 7>> :> "Destination host unknown")
    @@ (<<3, 8>> :> "Source host isolated")
    @@ (<<3, 9>> :> "Network administratively prohibited")
    @@ (<<3, 10>> :> "Host administratively prohibited")
    @@ (<<3, 11>> :> "Network unreachable for TOS")
    @@ (<<3, 12>> :> "Host unreachable for TOS")
    @@ (<<3, 13>> :> "Communication administratively prohibited")
    @@ (<<3, 14>> :> "Host Precedence Violation")
    @@ (<<3, 15>> :> "Precedence cutoff in effect")
    @@ (<<5, 0>> :> "Redirect Datagram for the Network")
    @@ (<<5, 1>> :> "Redirect Datagram for the Host")
    @@ (<<5, 2>> :> "Redirect Datagram for the TOS & network")
    @@ (<<5, 3>> :> "Redirect Datagram for the TOS & host")
    @@ (<<11, 0>> :> "TTL expired in transit")
    @@ (<<11, 1>> :> "Fragment reassembly time exceeded")
    @@ (<<12, 0>> :> "Pointer indicates the error")
    @@ (<<12, 1>> :> "Missing a required option")
    @@ (<<12, 2>> :> "Bad length")

----------------------------------------------------------------------------
(* Transport decoders *)

TCPPacket__parse_header(b) ==
    LET ports == unpack("!HH", Slice(b, 0, 4))
        nums == unpack("!II", Slice(b, 4, 12))
        fw == unpack("!HH", Slice(b, 12, 16))
        cu == unpack("!HH", Slice(b, 16, 20))
    IN  IF ports.cls = "raise" THEN ports
        ELSE IF nums.cls = "raise" THEN nums
        ELSE IF fw.cls = "raise" THEN fw
        ELSE IF cu.cls = "raise" THEN cu
        ELSE LET flags == fw.v[1]
                 data_offset == And(flags, 61440)
             IN  [cls |-> "TCPPacket",
                  src_port |-> ports.v[1], dst_port |-> ports.v[2],
                  seq_num |-> nums.v[1], ack_num |-> nums.v[2],
                  win_size |-> fw.v[2],
                  data_offset |-> data_offset,
                  flag_ns |-> And(flags, 256),
                  flag_cwr |-> And(flags, 128),
                  flag_ece |-> And(flags, 64),
                  flag_urg |-> And(flags, 32),
                  flag_ack |-> And(flags, 16),
                  flag_psh |-> And(flags, 8),
                  flag_rst |-> And(flags, 4),
                  flag_syn |-> And(flags, 2),
                  flag_fin |-> And(flags, 1),
                  checksum |-> cu.v[1], urg_ptr |-> cu.v[2],
                  options |-> Slice(b, 20, data_offset * 4),
                  total_length |-> Len(b)]

TCPPacket(b) == TCPPacket__parse_header(b)

TCPPacket_get_header_len(self) == self.data_offset * 4

TCPPacket_get_data_len(self) ==
    self.total_length - TCPPacket_get_header_len(self)

UDPPacket__parse_header(b) ==
    LET ports == unpack("!HH", Slice(b, 0, 4))
        lc == unpack("!HH", Slice(b, 4, 8))
    IN  IF ports.cls = "raise" THEN ports
        ELSE IF lc.cls = "raise" THEN lc
        ELSE [cls |-> "UDPPacket",
              src_port |-> ports.v[1], dst_port |-> ports.v[2],
              length |-> lc.v[1], checksum |-> lc.v[2],
              total_length |-> Len(b)]

UDPPacket(b) == UDPPacket__parse_header(b)

UDPPacket_get_header_len(self) == 8

UDPPacket_get_data_len(self) ==
    self.total_length - UDPPacket_get_header_len(self)

ICMPPacket__parse_header(buf) ==
    LET tcc == unpack("!BBH", Slice(buf, 0, 4))
    IN  IF tcc.cls = "raise" THEN tcc
        ELSE [cls |-> "ICMPPacket",
              type |-> tcc.v[1], code |-> tcc.v[2], checksum |-> tcc.v[3],
              rest |-> Slice(buf, 4, 8)]

ICMPPacket(buf) == ICMPPacket__parse_header(buf)

ICMPPacket_get_header_len(self) == 4

ICMPPacket_get_data_len(self) == 4

ICMPPacket___unicode__(self) ==
    "ICMP Type " \o ToString(self.type) \o " ("
    \o dict_get(ICMP_TYPES, <<self.type>>, "Unknown")
    \o ") Code " \o ToString(self.code) \o " ("
    \o dict_get(ICMP_CODES, <<self.code>>, "Unknown") \o ")"

----------------------------------------------------------------------------
(* Payload dispatcher *)

(* Faulty variant of payload_builder: the final else is dropped, so every   *)
(* other protocol number falls into the ICMP decoder.                      *)
payload_builder_m(payload_buff, proto) ==
    IF proto = IPPROTO_TCP THEN TCPPacket(payload_buff)
    ELSE IF proto = IPPROTO_UDP THEN UDPPacket(payload_buff)
    ELSE ICMPPacket(payload_buff)

payload_builder(payload_buff, proto) ==
    IF proto = IPPROTO_TCP THEN TCPPacket(payload_buff)
    ELSE IF proto = IPPROTO_UDP THEN UDPPacket(payload_buff)
    ELSE IF proto = IPPROTO_ICMP THEN ICMPPacket(payload_buff)
    ELSE None

----------------------------------------------------------------------------
(* IP decoder *)

IPPacket__parse_header(b) ==
    LET h1 == unpack("!BBH", Slice(b, 0, 4))
        h2 == unpack("!HH", Slice(b, 4, 8))
        h3 == unpack("!BBH", Slice(b, 8, 12))
        src == inet_ntoa(Slice(b, 12, 16))
        dst == inet_ntoa(Slice(b, 16, 20))
    IN  IF h1.cls = "raise" THEN h1
        ELSE IF h2.cls = "raise" THEN h2
        ELSE IF h3.cls = "raise" THEN h3
        ELSE IF src.cls = "raise" THEN src
        ELSE IF dst.cls = "raise" THEN dst
        ELSE LET v_ihl == h1.v[1]
                 dscp_ecn == h1.v[2]
                 flag_frag == h2.v[2]
                 ihl == And(v_ihl, 15)
             IN  [cls |-> "IPPacket",
                  total_length |-> h1.v[3],
                  version |-> And(Shr(v_ihl, 4), 15),
                  ihl |-> ihl,
                  dscp |-> And(Shr(dscp_ecn, 3), 31),
                  ecn |-> And(dscp_ecn, 7),
                  id |-> h2.v[1],
                  flags |-> And(Shr(flag_frag, 13), 7),
                  frag_offset |-> And(flag_frag, 8191),
                  ttl |-> h3.v[1], protocol |-> h3.v[2],
                  checksum |-> h3.v[3],
                  src_ip |-> src.v, dst_ip |-> dst.v,
                  options |-> Slice(b, 20, ihl * 4)]

(* Faulty variant of get_header_len: the word count is not scaled to bytes *)
IPPacket_get_header_len_m(self) == self.ihl

IPPacket_get_header_len(self) == self.ihl * 4

IPPacket_get_data_len(self) == self.total_length - self.ihl * 4

IPPacket_get_payload(self) == self.payload

(* Faulty variant of IPPacket.__init__: a failure of _parse_header is       *)
(* swallowed and a partial object is returned.                             *)
IPPacket_m(b) ==
    LET hdr == IPPacket__parse_header(b)
    IN  IF hdr.cls = "raise" THEN [cls |-> "IPPacket", payload |-> None]
        ELSE LET pl == payload_builder(
                           Slice(b, IPPacket_get_header_len(hdr), Len(b)),
                           hdr.protocol)
             IN  IF pl.cls = "raise" THEN pl
                 ELSE [f \in DOMAIN hdr \cup {"payload"} |->
                          IF f = "payload" THEN pl ELSE hdr[f]]

(* IPPacket.__init__: an exception raised by _parse_header or by           *)
(* payload_builder propagates, so no object is built.                      *)
IPPacket(b) ==
    LET hdr == IPPacket__parse_header(b)
    IN  IF hdr.cls = "raise" THEN hdr
        ELSE LET pl == payload_builder(
                           Slice(b, IPPacket_get_header_len(hdr), Len(b)),
                           hdr.protocol)
             IN  IF pl.cls = "raise" THEN pl
                 ELSE [f \in DOMAIN hdr \cup {"payload"} |->
                          IF f = "payload" THEN pl ELSE hdr[f]]

----------------------------------------------------------------------------
(* Flow key extractor *)

Tuple4(a, b, c, d) == [cls |-> "tuple", v |-> <<a, b, c, d>>]

(* Faulty variant of to_tuple: the flip flag has no effect *)
to_tuple_m(ippacket, flip_) ==
    LET payload == IPPacket_get_payload(ippacket)
    IN  IF payload.cls = "TCPPacket"
        THEN Tuple4(ippacket.src_ip, payload.src_port,
                    ippacket.dst_ip, payload.dst_port)
        ELSE None

to_tuple(ippacket, flip_) ==
    LET payload == IPPacket_get_payload(ippacket)
    IN  IF payload.cls = "TCPPacket" /\ ~flip_
        THEN Tuple4(ippacket.src_ip, payload.src_port,
                    ippacket.dst_ip, payload.dst_port)
        ELSE IF payload.cls = "TCPPacket" /\ flip_
        THEN Tuple4(ippacket.dst_ip, payload.dst_port,
                    ippacket.src_ip, payload.src_port)
        ELSE None

----------------------------------------------------------------------------
(* Method dispatch on the class of the receiver (the Packet interface) *)

PacketClasses == {"IPPacket", "TCPPacket", "UDPPacket", "ICMPPacket"}

get_header_len(self) ==
    CASE self.cls = "IPPacket" -> IPPacket_get_header_len(self)
      [] self.cls = "TCPPacket" -> TCPPacket_get_header_len(self)
      [] self.cls = "UDPPacket" -> UDPPacket_get_header_len(self)
      [] self.cls = "ICMPPacket" -> ICMPPacket_get_header_len(self)

get_data_len(self) ==
    CASE self.cls = "IPPacket" -> IPPacket_get_data_len(self)
      [] self.cls = "TCPPacket" -> TCPPacket_get_data_len(self)
      [] self.cls = "UDPPacket" -> UDPPacket_get_data_len(self)
      [] self.cls = "ICMPPacket" -> ICMPPacket_get_data_len(self)

----------------------------------------------------------------------------
(* Input buffers.  Byte i (0-based) of a buffer is Fill(i) unless the       *)
(* override function ov sets it.                                            *)

Fill(i) == (i * 37 + 11) % 256

MkBuf(len, ov) ==
    [i \in 1..len |-> IF (i - 1) \in DOMAIN ov THEN ov[i - 1] ELSE Fill(i - 1)]

(* An IPv4 datagram: version 4, the given IHL nibble, byte 1 and protocol; *)
(* the bytes after the header start a transport header whose bytes 0 and 1 *)
(* are 0 and whose data offset nibble is 5.                                *)
IPBuf(len, ihl, b1, proto) ==
    MkBuf(len, (0 :> 64 + ihl) @@ (1 :> b1) @@ (9 :> proto)
               @@ (ihl * 4 :> 0) @@ (ihl * 4 + 1 :> 0)
               @@ (ihl * 4 + 12 :> 80))

(* A transport slice: bytes 0, 1 (ICMP type and code, or the TCP/UDP source *)
(* port) and the data offset nibble d of byte 12.                           *)
TBuf(len, t, c, d) ==
    MkBuf(len, (0 :> t) @@ (1 :> c) @@ (12 :> d * 16) @@ (13 :> 24))

SomeProtocols == {0, IPPROTO_ICMP, IPPROTO_TCP, IPPROTO_UDP}

SomeTypes == {0, 3, 5, 6, 11, 12, 30, 200}

SomeCodes == {0, 1, 2, 3, 15, 16, 200}

Buffers ==
    {IPBuf(len, 5, 0, p) : len \in 0..MaxLen, p \in SomeProtocols}
    \cup {IPBuf(len, ihl, 0, p) :
             len \in {20, MaxLen}, ihl \in 0..15, p \in {0, IPPROTO_TCP}}
    \cup {IPBuf(20, 5, b1, 0) : b1 \in Byte}
    \cup {TBuf(len, 0, 0, 5) : len \in 0..MaxLen}
    \cup {TBuf(len, 0, 0, d) : len \in {19, 20, 24, 40, MaxLen}, d \in 0..15}
    \cup {TBuf(8, t, c, 0) : t \in SomeTypes, c \in SomeCodes}

----------------------------------------------------------------------------
(* The state machine: one buffer, one constructor or dispatcher call on it, *)
(* then one method call on the object built.                                *)

Builders ==
    {"IPPacket", "TCPPacket", "UDPPacket", "ICMPPacket", "payload_builder"}

Init ==
    /\ buff \in Buffers
    /\ op = "init"
    /\ protocol = 0
    /\ flip = FALSE
    /\ obj = None
    /\ ret = None

NewIPPacket ==
    /\ op = "init"
    /\ obj' = IPPacket(buff)
    /\ op' = "IPPacket"
    /\ UNCHANGED <<buff, protocol, flip, ret>>

NewTCPPacket ==
    /\ op = "init"
    /\ obj' = TCPPacket(buff)
    /\ op' = "TCPPacket"
    /\ UNCHANGED <<buff, protocol, flip, ret>>

NewUDPPacket ==
    /\ op = "init"
    /\ obj' = UDPPacket(buff)
    /\ op' = "UDPPacket"
    /\ UNCHANGED <<buff, protocol, flip, ret>>

NewICMPPacket ==
    /\ op = "init"
    /\ obj' = ICMPPacket(buff)
    /\ op' = "ICMPPacket"
    /\ UNCHANGED <<buff, protocol, flip, ret>>

CallPayloadBuilder ==
    /\ op = "init"
    /\ \E p \in Byte :
          /\ protocol' = p
          /\ obj' = payload_builder(buff, p)
    /\ op' = "payload_builder"
    /\ UNCHANGED <<buff, flip, ret>>

CallToTuple ==
    /\ op = "IPPacket"
    /\ obj.cls = "IPPacket"
    /\ \E f \in BOOLEAN :
          /\ flip' = f
          /\ ret' = to_tuple(obj, f)
    /\ op' = "to_tuple"
    /\ UNCHANGED <<buff, protocol, obj>>

CallGetHeaderLen ==
    /\ op \in Builders
    /\ obj.cls \in PacketClasses
    /\ ret' = [cls |-> "int", v |-> get_header_len(obj)]
    /\ op' = "get_header_len"
    /\ UNCHANGED <<buff, protocol, flip, obj>>

CallGetDataLen ==
    /\ op \in Builders
    /\ obj.cls \in PacketClasses
    /\ ret' = [cls |-> "int", v |-> get_data_len(obj)]
    /\ op' = "get_data_len"
    /\ UNCHANGED <<buff, protocol, flip, obj>>

CallUnicode ==
    /\ op \in Builders
    /\ obj.cls = "ICMPPacket"
    /\ ret' = [cls |-> "str", v |-> ICMPPacket___unicode__(obj)]
    /\ op' = "__unicode__"
    /\ UNCHANGED <<buff, protocol, flip, obj>>

Next ==
    \/ NewIPPacket
    \/ NewTCPPacket
    \/ NewUDPPacket
    \/ NewICMPPacket
    \/ CallPayloadBuilder
    \/ CallToTuple
    \/ CallGetHeaderLen
    \/ CallGetDataLen
    \/ CallUnicode

Spec == Init /\ [][Next]_vars

----------------------------------------------------------------------------
(* Properties.  The bytes of buff are read directly (buff[i + 1] is byte i) *)
(* so that no property is stated in terms of the decoder it is about.       *)

(* C1 as stated: for every buffer the IP decoder accepts, get_header_len()  *)
(* returns IHL * 4, IHL being the low nibble of byte 0, and the result lies *)
(* in 20..60.                                                               *)
C1_HeaderLenIn20To60 ==
    (op = "get_header_len" /\ obj.cls = "IPPacket")
        => /\ Len(buff) >= 20
           /\ ret.v = (buff[1] % 16) * 4
           /\ 20 <= ret.v /\ ret.v <= 60

(* C1 amended: for every buffer the IP decoder accepts, get_header_len()    *)
(* returns IHL * 4 and lies in 0..60; it is at least 20 exactly when the    *)
(* IHL nibble is at least 5.                                                *)
C1_HeaderLenIsIhlTimes4 ==
    (op = "get_header_len" /\ obj.cls = "IPPacket")
        => /\ Len(buff) >= 20
           /\ ret.v = (buff[1] % 16) * 4
           /\ 0 <= ret.v /\ ret.v <= 60
           /\ (ret.v >= 20 <=> buff[1] % 16 >= 5)

(* An accepted datagram whose IHL nibble is 3: get_header_len() returned 12 *)
C1_Witness ==
    /\ op = "get_header_len"
    /\ obj.cls = "IPPacket"
    /\ buff[1] % 16 = 3
    /\ ret.v = 12

(* C2: to_tuple on an IPPacket with a TCP payload returns (src address,     *)
(* src port, dst address, dst port) when flip is unset and the reversed     *)
(* tuple (dst address, dst port, src address, src port) when flip is set.   *)
C2_ToTupleFlipSwapsEndpoints ==
    (op = "to_tuple" /\ obj.payload.cls = "TCPPacket")
        => /\ ret.cls = "tuple"
           /\ ~flip => ret.v = <<obj.src_ip, obj.payload.src_port,
                                 obj.dst_ip, obj.payload.dst_port>>
           /\ flip => ret.v = <<obj.dst_ip, obj.payload.dst_port,
                                obj.src_ip, obj.payload.src_port>>

(* to_tuple was called with flip set on a TCP datagram whose two endpoints  *)
(* differ in address and in port                                            *)
C2_Witness ==
    /\ op = "to_tuple"
    /\ flip
    /\ obj.payload.cls = "TCPPacket"
    /\ ret.cls = "tuple"
    /\ ret.v[1] # ret.v[3]
    /\ ret.v[2] # ret.v[4]

(* C3: payload_builder is total over the protocol numbers 0..255: on a      *)
(* sufficiently long slice 6 yields a TCPPacket, 17 a UDPPacket, 1 an       *)
(* ICMPPacket, and every other number yields None on any slice, never an    *)
(* exception.                                                               *)
C3_DispatchTotal ==
    (op = "payload_builder")
        => /\ protocol \in 0..255
           /\ (protocol = 6 /\ Len(buff) >= 20) => obj.cls = "TCPPacket"
           /\ (protocol = 17 /\ Len(buff) >= 8) => obj.cls = "UDPPacket"
           /\ (protocol = 1 /\ Len(buff) >= 8) => obj.cls = "ICMPPacket"
           /\ protocol \notin {1, 6, 17} => obj = [cls |-> "None"]

(* payload_builder was called with a protocol number that is none of the    *)
(* three supported ones, on a slice too short for any transport header      *)
C3_Witness ==
    /\ op = "payload_builder"
    /\ protocol = 47
    /\ Len(buff) = 0
    /\ obj.cls = "None"

(* C4: for a TCPPacket built from a slice of length L whose data offset d   *)
(* is the top nibble of byte 12, with d * 4 <= L, get_header_len() returns  *)
(* d * 4 and get_data_len() returns L - d * 4.                              *)
C4_TcpLengths ==
    (obj.cls = "TCPPacket" /\ (buff[13] \div 16) * 4 <= Len(buff))
        => /\ op = "get_header_len" => ret.v = (buff[13] \div 16) * 4
           /\ op = "get_data_len"
                 => ret.v = Len(buff) - (buff[13] \div 16) * 4

(* C5: when the IP header is complete and the slice after it is too short   *)
(* for the transport header the protocol byte selects, the IP decoder still *)
(* yields an IPPacket with its header fields decoded and a payload that is  *)
(* absent or an error.                                                      *)
C5_TransportFailureStaysLocal ==
    LET hl == (buff[1] % 16) * 4
        rest == Len(buff) - hl
    IN  (/\ op = "IPPacket"
         /\ Len(buff) >= 20
         /\ hl <= Len(buff)
         /\ \/ buff[10] = 6 /\ rest < 20
            \/ buff[10] = 17 /\ rest < 8
            \/ buff[10] = 1 /\ rest < 4)
            => /\ obj.cls = "IPPacket"
               /\ obj.protocol = buff[10]
               /\ obj.ihl = buff[1] % 16
               /\ obj.payload.cls \in {"None", "raise"}

(* C6: each transport decoder raises on every slice shorter than its        *)
(* minimum header size, 20 bytes for TCP, 8 for UDP, 8 for ICMP, and builds *)
(* no packet.                                                               *)
C6_TransportRejectsShortSlices ==
    /\ (op = "TCPPacket" /\ Len(buff) < 20) => obj.cls = "raise"
    /\ (op = "UDPPacket" /\ Len(buff) < 8) => obj.cls = "raise"
    /\ (op = "ICMPPacket" /\ Len(buff) < 8) => obj.cls = "raise"

(* C7: for every buffer of 0..19 bytes the IP decoder raises (struct.error  *)
(* or socket.error) and no IPPacket, partial or complete, is built.         *)
C7_ShortBufferRaises ==
    (op = "IPPacket" /\ Len(buff) < 20)
        => /\ obj.cls = "raise"
           /\ obj.exc \in {"struct.error", "socket.error"}

(* The IP decoder was called on a buffer of 19 bytes and raised *)
C7_Witness ==
    /\ op = "IPPacket"
    /\ Len(buff) = 19
    /\ obj.cls = "raise"

(* C8: the ICMP summary names the type by the ICMP_TYPES entry for type and *)
(* the code by the ICMP_CODES entry for the pair (type, code), each         *)
(* "Unknown" only when its key is absent from its table.                    *)
C8_IcmpSummaryNames ==
    (op = "__unicode__")
        => ret.v = "ICMP Type " \o ToString(obj.type) \o " ("
                   \o (IF <<obj.type>> \in DOMAIN ICMP_TYPES
                       THEN ICMP_TYPES[<<obj.type>>] ELSE "Unknown")
                   \o ") Code " \o ToString(obj.code) \o " ("
                   \o (IF <<obj.type, obj.code>> \in DOMAIN ICMP_CODES
                       THEN ICMP_CODES[<<obj.type, obj.code>>] ELSE "Unknown")
                   \o ")"

(* C9: the TCP decoder raises, and builds no TCPPacket, when the slice has  *)
(* at least 20 bytes but fewer than data offset * 4, the data offset being  *)
(* the top nibble of byte 12.                                               *)
C9_TcpRejectsShortOptions ==
    (/\ op = "TCPPacket"
     /\ Len(buff) >= 20
     /\ Len(buff) < (buff[13] \div 16) * 4)
        => obj.cls = "raise"

(* C10: the IP decoder splits byte 1 into DSCP, its top 5 bits, and ECN,    *)
(* its bottom 2 bits, so ECN is in 0..3 whatever the other bits are.        *)
C10_EcnIsTwoBits ==
    (op = "IPPacket" /\ obj.cls = "IPPacket")
        => /\ obj.dscp = buff[2] \div 8
           /\ obj.ecn = buff[2] % 4
           /\ obj.ecn \in 0..3

====
